---- MODULE Spec2Model ----
(***************************************************************************)
(* deja: scoped memory for agents.  A model of the Durable Object engine   *)
(* (src/src/do/DejaDO.ts) and of the scheduled retention sweep             *)
(* (src/src/cleanup.ts) over one Record Store (SQLite tables `learnings`   *)
(* and `secrets`) and one Vector Index (Vectorize).                        *)
(*                                                                         *)
(* Confidence is kept in tenths (0.1 is 1, 1.0 is 10), time in days.       *)
(* A table is a sequence of rows in rowid order: a row inserted later has  *)
(* a larger rowid, and the ids `${Date.now()}-...` grow with time, so a    *)
(* SELECT without ORDER BY yields the rows in insertion order under both   *)
(* a table scan and a primary-key lookup.                                  *)
(***************************************************************************)
EXTENDS Integers, Sequences, FiniteSets, TLC

VARIABLES
    learnings,   \* Record Store, table learnings: sequence of rows
    secrets,     \* Record Store, table secrets: sequence of rows
    vectorize,   \* Vector Index: set of [id, scope] (id and metadata.scope)
    now,         \* the clock, in days
    nextId,      \* number of ids generated so far
    injects,     \* number of reinforcing inject calls so far
    lastLearn,   \* id returned by the last learn, 0 once a later call has written
    response,    \* the result of the operation that just ran, or Idle
    pending      \* calls suspended at an await, each as its result so far

vars == <<learnings, secrets, vectorize, now, nextId, injects, lastLearn,
          response, pending>>

(***************************************************************************)
(* Bounds of the model.                                                    *)
(***************************************************************************)
MaxScopes == 3      \* longest requested scope list (resolver specification)
MaxLearns == 2      \* learn calls that reach the id generator
MaxInjects == 1     \* inject calls that reach the reinforcement step
MaxTicks == 1       \* steps of the clock
MaxPending == 2     \* calls suspended at an await at one time
MaxOverlap == 2     \* inject calls that overlap each other

(***************************************************************************)
(* Program constants.                                                      *)
(***************************************************************************)
DefaultConfidence == 5   \* learn(..., confidence: number = 0.5, ...)
HitIncrement == 1        \* confidence + 0.1
TopKFactor == 2          \* topK: limit * 2
StaleDays == 7           \* Date.now() - 7 * 24 * 60 * 60 * 1000
LowConfidence == 3       \* confidence < 0.3
TickDays == 8            \* the sweep runs daily; the model's clock step


(***************************************************************************)
(* Strings: String.prototype.startsWith.                                   *)
(***************************************************************************)
StartsWith(s, prefix) ==
    /\ Len(s) >= Len(prefix)
    /\ SubSeq(s, 1, Len(prefix)) = prefix

Includes(seq, x) == \E i \in 1..Len(seq) : seq[i] = x

SeqsUpTo(S, n) == UNION {[1..k -> S] : k \in 0..n}

(***************************************************************************)
(* Scope Resolver: DejaDO.filterScopesByPriority.                          *)
(***************************************************************************)
priority == <<"session:", "agent:", "shared">>

Matches(scopes, prefix) == SelectSeq(scopes, LAMBDA scope : StartsWith(scope, prefix))

RECURSIVE FilterFrom(_, _)
FilterFrom(scopes, k) ==
    IF k > Len(priority)
    THEN (IF Includes(scopes, "shared") THEN <<"shared">> ELSE <<>>)
    ELSE IF Len(Matches(scopes, priority[k])) > 0
         THEN Matches(scopes, priority[k])
         ELSE FilterFrom(scopes, k + 1)

\* A resolver that takes "first match wins" to mean the first scope.
filterScopesByPriority_FirstOnly(scopes) ==
    IF FilterFrom(scopes, 1) = <<>> THEN <<>> ELSE <<FilterFrom(scopes, 1)[1]>>

filterScopesByPriority(scopes) == FilterFrom(scopes, 1)

(***************************************************************************)
(* Inputs.                                                                 *)
(***************************************************************************)
ScopeAtoms == {"session:a", "session:b", "agent:a", "agent:b", "shared",
               "sharedX", "foo"}

ScopeLists == SeqsUpTo(ScopeAtoms, MaxScopes)

\* The arguments learn is called with; confidence <<>> is an omitted argument.
Deploying(scope, confidence) ==
    [scope |-> scope, trigger |-> "deploying", learning |-> "run dry-run first",
     confidence |-> confidence]

Limits == {1, 2}

\* getLearnings' filter.limit; 0 is an absent limit.
FilterLimits == {0, 1}

(***************************************************************************)
(* The result of an operation, as its caller sees it.                      *)
(*   status: "ok" (a value was returned), "error" (the call threw, or      *)
(*   returned success: false), "not_found" (null), "" (no operation).      *)
(*   fail: the dependency call that failed during the operation, which     *)
(*   the caller does not see.                                              *)
(***************************************************************************)
Idle == [op |-> "idle", status |-> "", arg |-> <<>>, scopes |-> <<>>,
         filtered |-> <<>>, limit |-> 0, matches |-> <<>>, learnings |-> <<>>,
         prompt |-> "", id |-> 0, value |-> "", embedded |-> FALSE,
         searched |-> FALSE, deleted |-> 0, reasons |-> <<>>,
         stats |-> <<>>, fail |-> "none"]

Ids(rows) == {rows[i].id : i \in 1..Len(rows)}

VectorIds == {v.id : v \in vectorize}

(***************************************************************************)
(* DejaDO.learn                                                            *)
(***************************************************************************)
NewLearning(id, in) ==
    [id |-> id,
     trigger |-> in.trigger,
     learning |-> in.learning,
     confidence |-> IF in.confidence = <<>> THEN DefaultConfidence
                    ELSE in.confidence[1],
     scope |-> in.scope,
     createdAt |-> now]

\* A learn that logs the failure and returns the learning all the same.
LearnStatus_Swallowed(fail) == "ok"

\* try { insert; VECTORIZE.insert; return } catch (error) { throw error }
LearnStatus(fail) == IF fail = "none" THEN "ok" ELSE "error"

\* A learn that writes the Vector Index before the Record Store.
learn_IndexFirst(in, fail) ==
    /\ response = Idle
    /\ nextId < MaxLearns
    /\ LET id == nextId + 1
           newLearning == NewLearning(id, in)
           returned == fail = "none"
       IN /\ nextId' = id
          /\ vectorize' = IF fail \in {"none", "db"}
                          THEN vectorize \cup {[id |-> id, scope |-> in.scope]}
                          ELSE vectorize
          /\ learnings' = IF fail = "none" THEN Append(learnings, newLearning)
                          ELSE learnings
          /\ lastLearn' = IF returned THEN id ELSE 0
          /\ response' = [Idle EXCEPT !.op = "learn", !.fail = fail,
                                      !.status = LearnStatus(fail),
                                      !.arg = in,
                                      !.id = IF returned THEN id ELSE 0,
                                      !.learnings = IF returned THEN <<newLearning>>
                                                    ELSE <<>>,
                                      !.embedded = TRUE]
    /\ UNCHANGED <<pending, secrets, now, injects>>

learn(in, fail) ==
    /\ response = Idle
    /\ nextId < MaxLearns
    /\ LET id == nextId + 1
           newLearning == NewLearning(id, in)
           inserted == fail \in {"none", "vector"}
           returned == LearnStatus(fail) = "ok"
       IN /\ nextId' = id
          /\ learnings' = IF inserted THEN Append(learnings, newLearning)
                          ELSE learnings
          /\ vectorize' = IF fail = "none"
                          THEN vectorize \cup {[id |-> id, scope |-> in.scope]}
                          ELSE vectorize
          /\ lastLearn' = IF returned THEN id ELSE 0
          /\ response' = [Idle EXCEPT !.op = "learn", !.fail = fail,
                                      !.status = LearnStatus(fail),
                                      !.arg = in,
                                      !.id = IF returned THEN id ELSE 0,
                                      !.learnings = IF returned THEN <<newLearning>>
                                                    ELSE <<>>,
                                      !.embedded = TRUE]
    /\ UNCHANGED <<pending, secrets, now, injects>>

\* learn up to its await on VECTORIZE.insert: the id is generated and the
\* row is in the Record Store.
learnInsert(in) ==
    /\ response = Idle
    /\ nextId < MaxLearns
    /\ Cardinality(pending) < MaxPending
    /\ LET id == nextId + 1
           newLearning == NewLearning(id, in)
       IN /\ nextId' = id
          /\ learnings' = Append(learnings, newLearning)
          /\ pending' = pending \cup
                {[Idle EXCEPT !.op = "learn",
                              !.arg = in,
                              !.id = id,
                              !.learnings = <<newLearning>>,
                              !.embedded = TRUE]}
    /\ UNCHANGED <<secrets, vectorize, now, injects, lastLearn, response>>

\* learn from VECTORIZE.insert to its return.
learnIndex(call) ==
    /\ response = Idle
    /\ call \in pending
    /\ call.op = "learn"
    /\ vectorize' = vectorize \cup {[id |-> call.id, scope |-> call.arg.scope]}
    /\ response' = [call EXCEPT !.status = "ok"]
    /\ pending' = pending \ {call}
    /\ lastLearn' = call.id
    /\ UNCHANGED <<learnings, secrets, now, nextId, injects>>

(***************************************************************************)
(* Vector Index: VECTORIZE.query(embedding, {topK}).  The answer is the    *)
(* topK nearest entries of the index, best first; which entries are near   *)
(* depends on the embedding and is any ranking of the index.  The score of *)
(* rank i is RankScore(i).                                                 *)
(***************************************************************************)
Min(a, b) == IF a < b THEN a ELSE b

RankScore(i) == 10 - i

Rankings(n) == {r \in [1..n -> VectorIds] : \A i, j \in 1..n : r[i] = r[j] => i = j}

VectorAnswers(topK) ==
    LET n == Min(topK, Cardinality(VectorIds))
    IN {[i \in 1..n |-> [id |-> r[i], score |-> RankScore(i)]] : r \in Rankings(n)}

MatchIds(matches) == {matches[i].id : i \in 1..Len(matches)}

\* matches.find(m => m.id === a.id)?.score || 0
ScoreOf(matches, id) ==
    IF id \in MatchIds(matches)
    THEN matches[CHOOSE i \in 1..Len(matches) :
                    /\ matches[i].id = id
                    /\ \A j \in 1..(i - 1) : matches[j].id # id].score
    ELSE 0

\* db.select().from(learnings).where(id IN ids AND scope IN scopes).limit(limit)
Take(seq, n) == SubSeq(seq, 1, Min(n, Len(seq)))

\* A result built from the matches: one row per matched id, a blank row
\* where the Record Store has none.
SelectLearnings_PerMatch(ids, scopes, limit) ==
    LET blank(i) == [id |-> i, trigger |-> "", learning |-> "", confidence |-> 0,
                     scope |-> "", createdAt |-> 0]
        rowOf(i) == IF i \in Ids(learnings)
                    THEN learnings[CHOOSE j \in 1..Len(learnings) : learnings[j].id = i]
                    ELSE blank(i)
        all == [i \in 1..nextId |-> rowOf(i)]
    IN Take(SelectSeq(all, LAMBDA row : /\ row.id \in ids
                                        /\ (row.id \in Ids(learnings) =>
                                               Includes(scopes, row.scope))),
            limit)

\* The same SELECT without its scope condition.
SelectLearnings_AnyScope(ids, scopes, limit) ==
    Take(SelectSeq(learnings, LAMBDA row : row.id \in ids), limit)

SelectLearnings(ids, scopes, limit) ==
    Take(SelectSeq(learnings, LAMBDA row : row.id \in ids /\ Includes(scopes, row.scope)),
         limit)

\* Array.prototype.sort((a, b) => scoreB - scoreA): stable, descending score.
RECURSIVE InsertByScore(_, _, _)
InsertByScore(sorted, row, matches) ==
    IF sorted = <<>> THEN <<row>>
    ELSE IF ScoreOf(matches, Head(sorted).id) >= ScoreOf(matches, row.id)
         THEN <<Head(sorted)>> \o InsertByScore(Tail(sorted), row, matches)
         ELSE <<row>> \o sorted

\* No sort: the rows as the SELECT gave them.
SortByScore_Unsorted(rows, matches) == rows

RECURSIVE SortByScore(_, _)
SortByScore(rows, matches) ==
    IF rows = <<>> THEN <<>>
    ELSE InsertByScore(SortByScore(SubSeq(rows, 1, Len(rows) - 1), matches),
                       rows[Len(rows)], matches)

(***************************************************************************)
(* DejaDO.query: the learnings it returns.                                 *)
(***************************************************************************)
QueryLearnings(scopes, limit, matches) ==
    LET filteredScopes == filterScopesByPriority(scopes)
        ids == MatchIds(matches)
        dbLearnings == SelectLearnings(ids, filteredScopes, limit)
    IN IF Len(filteredScopes) = 0 \/ ids = {} THEN <<>>
       ELSE SortByScore(dbLearnings, matches)

ReadFailures == {"none", "embed", "vector", "db"}

\* A query without the early return on an empty scope list.
query_NoEarlyReturn(scopes, limit, fail, matches) ==
    /\ response = Idle
    /\ response' = [Idle EXCEPT !.op = "query", !.fail = fail,
                                !.status = "ok",
                                !.scopes = scopes,
                                !.filtered = filterScopesByPriority(scopes),
                                !.limit = limit,
                                !.matches = matches,
                                !.learnings = IF fail = "none"
                                              THEN QueryLearnings(scopes, limit, matches)
                                              ELSE <<>>,
                                !.embedded = TRUE,
                                !.searched = fail # "embed"]
    /\ UNCHANGED <<pending, learnings, secrets, vectorize, now, nextId, injects, lastLearn>>

\* A query that counts a hit on what it returns, as inject does.
query_Reinforcing(scopes, limit, fail, matches) ==
    /\ response = Idle
    /\ LET found == IF fail = "none" THEN Ids(QueryLearnings(scopes, limit, matches))
                    ELSE {}
       IN /\ learnings' = [i \in 1..Len(learnings) |->
                              IF learnings[i].id \in found
                              THEN [learnings[i] EXCEPT !.confidence = @ + HitIncrement]
                              ELSE learnings[i]]
          /\ response' = [Idle EXCEPT !.op = "query", !.fail = fail,
                                      !.status = "ok",
                                      !.scopes = scopes,
                                      !.limit = limit,
                                      !.matches = matches,
                                      !.learnings = IF fail = "none"
                                                    THEN QueryLearnings(scopes, limit, matches)
                                                    ELSE <<>>]
    /\ UNCHANGED <<pending, secrets, vectorize, now, nextId, injects, lastLearn>>

query(scopes, limit, fail, matches) ==
    /\ response = Idle
    /\ LET filteredScopes == filterScopesByPriority(scopes)
           called == Len(filteredScopes) > 0
           ok == called /\ fail = "none"
       IN /\ (~called => fail = "none" /\ matches = <<>>)
          /\ (called /\ fail \in {"embed", "vector"} => matches = <<>>)
          /\ response' = [Idle EXCEPT !.op = "query", !.fail = fail,
                                      !.status = "ok",
                                      !.scopes = scopes,
                                      !.filtered = filteredScopes,
                                      !.limit = limit,
                                      !.matches = matches,
                                      !.learnings = IF ok
                                                    THEN QueryLearnings(scopes, limit, matches)
                                                    ELSE <<>>,
                                      !.embedded = called,
                                      !.searched = called /\ fail # "embed"]
    /\ lastLearn' = lastLearn
    /\ UNCHANGED <<pending, learnings, secrets, vectorize, now, nextId, injects>>

(***************************************************************************)
(* DejaDO.inject                                                           *)
(***************************************************************************)
InjectLearnings(scopes, limit, matches) ==
    LET filteredScopes == filterScopesByPriority(scopes)
        ids == MatchIds(matches)
    IN IF Len(filteredScopes) = 0 \/ ids = {} THEN <<>>
       ELSE SelectLearnings(ids, filteredScopes, limit)

\* learnings.map(l => `When ${l.trigger}, ${l.learning}`).join('\n')
RECURSIVE Join(_, _)
Join(lines, sep) ==
    IF lines = <<>> THEN ""
    ELSE IF Len(lines) = 1 THEN lines[1]
         ELSE lines[1] \o sep \o Join(Tail(lines), sep)

\* A prompt that leaves the trigger out of each line.
PromptOf_LearningOnly(rows) ==
    Join([i \in 1..Len(rows) |-> rows[i].learning], "\n")

PromptOf(rows) ==
    Join([i \in 1..Len(rows) |-> "When " \o rows[i].trigger \o ", " \o rows[i].learning],
         "\n")

\* An upsert: a hit id that has no row gets one.
Reinforce_Upsert(rows, hit) ==
    LET raised == [i \in 1..Len(rows) |->
                     IF rows[i].id \in hit
                     THEN [rows[i] EXCEPT !.confidence = @ + HitIncrement]
                     ELSE rows[i]]
        missing == hit \ Ids(rows)
    IN IF missing = {} THEN raised
       ELSE Append(raised, [id |-> CHOOSE id \in missing : TRUE, trigger |-> "",
                            learning |-> "", confidence |-> HitIncrement,
                            scope |-> "shared", createdAt |-> now])

\* Hits raise the rows returned and lower the others by the same step.
Reinforce_Decay(rows, hit) ==
    [i \in 1..Len(rows) |->
        IF rows[i].id \in hit
        THEN [rows[i] EXCEPT !.confidence = @ + HitIncrement]
        ELSE [rows[i] EXCEPT !.confidence = @ - HitIncrement]]

\* An update without its WHERE clause: every row is raised.
Reinforce_EveryRow(rows, hit) ==
    [i \in 1..Len(rows) |-> [rows[i] EXCEPT !.confidence = @ + HitIncrement]]

\* UPDATE learnings SET confidence = confidence + 0.1 WHERE id = ?, for each id
Reinforce(rows, hit) ==
    [i \in 1..Len(rows) |->
        IF rows[i].id \in hit
        THEN [rows[i] EXCEPT !.confidence = @ + HitIncrement]
        ELSE rows[i]]

InjectFailures == ReadFailures \cup {"update"}

Formats == {"prompt", "learnings"}

inject(scopes, limit, format, fail, matches, bad) ==
    /\ response = Idle
    /\ injects < MaxInjects
    /\ LET filteredScopes == filterScopesByPriority(scopes)
           called == Len(filteredScopes) > 0
           found == InjectLearnings(scopes, limit, matches)
           updating == called /\ fail \in {"none", "update"} /\ Len(found) > 0
           ok == called /\ fail = "none"
       IN /\ (~called => fail = "none" /\ matches = <<>>)
          /\ (called /\ fail \in {"embed", "vector"} => matches = <<>>)
          /\ (fail = "update" => updating /\ bad \in Ids(found))
          /\ (fail # "update" => bad = 0)
          /\ learnings' = IF updating
                          THEN Reinforce(learnings, Ids(found) \ {bad})
                          ELSE learnings
          /\ injects' = injects + 1
          /\ response' = [Idle EXCEPT !.op = "inject", !.fail = fail,
                                      !.status = "ok",
                                      !.arg = format,
                                      !.scopes = scopes,
                                      !.filtered = filteredScopes,
                                      !.limit = limit,
                                      !.matches = matches,
                                      !.learnings = IF ok THEN found ELSE <<>>,
                                      !.prompt = IF ok /\ format = "prompt"
                                                 THEN PromptOf(found) ELSE "",
                                      !.embedded = called,
                                      !.searched = called /\ fail # "embed"]
    /\ lastLearn' = 0
    /\ UNCHANGED <<pending, secrets, vectorize, now, nextId>>

(***************************************************************************)
(* DejaDO.inject in two steps, for calls that overlap: up to the SELECT,   *)
(* then from the confidence updates on.  Between the two the call is in    *)
(* pending with the learnings it has read.                                 *)
(***************************************************************************)
injectSelect(scopes, limit, format, matches) ==
    /\ response = Idle
    /\ Cardinality(pending) < MaxPending
    /\ Len(filterScopesByPriority(scopes)) > 0
    /\ pending' = pending \cup
          {[Idle EXCEPT !.op = "inject",
                        !.arg = format,
                        !.scopes = scopes,
                        !.filtered = filterScopesByPriority(scopes),
                        !.limit = limit,
                        !.matches = matches,
                        !.learnings = InjectLearnings(scopes, limit, matches),
                        !.embedded = TRUE,
                        !.searched = TRUE]}
    /\ injects' = injects + 1
    /\ UNCHANGED <<learnings, secrets, vectorize, now, nextId, lastLearn, response>>

\* Updates that write back the confidence the call read, plus the increment.
injectUpdate_WriteBack(call) ==
    /\ response = Idle
    /\ call \in pending
    /\ call.op = "inject"
    /\ learnings' = [i \in 1..Len(learnings) |->
                        IF learnings[i].id \in Ids(call.learnings)
                        THEN LET read == CHOOSE k \in 1..Len(call.learnings) :
                                            call.learnings[k].id = learnings[i].id
                             IN [learnings[i] EXCEPT !.confidence =
                                    call.learnings[read].confidence + HitIncrement]
                        ELSE learnings[i]]
    /\ response' = [call EXCEPT !.status = "ok",
                                !.prompt = IF call.arg = "prompt"
                                           THEN PromptOf(call.learnings) ELSE ""]
    /\ pending' = pending \ {call}
    /\ lastLearn' = 0
    /\ UNCHANGED <<secrets, vectorize, now, nextId, injects>>

injectUpdate(call) ==
    /\ response = Idle
    /\ call \in pending
    /\ call.op = "inject"
    /\ learnings' = Reinforce(learnings, Ids(call.learnings))
    /\ response' = [call EXCEPT !.status = "ok",
                                !.prompt = IF call.arg = "prompt"
                                           THEN PromptOf(call.learnings) ELSE ""]
    /\ pending' = pending \ {call}
    /\ lastLearn' = 0
    /\ UNCHANGED <<secrets, vectorize, now, nextId, injects>>

(***************************************************************************)
(* DejaDO.deleteLearning.  response.deleted is the number of rows the      *)
(* DELETE removed, which the code does not look at.                        *)
(***************************************************************************)
\* A DELETE that removes nothing.
Without_Nothing(rows, ids) == rows

Without(rows, ids) == SelectSeq(rows, LAMBDA row : row.id \notin ids)

DeleteFailures == {"none", "db", "vector"}

\* A delete that leaves the Vector Index alone.
deleteLearning_RecordOnly(id, fail) ==
    /\ response = Idle
    /\ learnings' = IF fail = "db" THEN learnings ELSE Without(learnings, {id})
    /\ lastLearn' = 0
    /\ response' = [Idle EXCEPT !.op = "deleteLearning", !.fail = fail,
                                !.status = IF fail = "none" THEN "ok" ELSE "error",
                                !.id = id,
                                !.deleted = IF fail = "db" THEN 0
                                            ELSE Cardinality(Ids(learnings) \cap {id})]
    /\ UNCHANGED <<pending, secrets, vectorize, now, nextId, injects>>

deleteLearning(id, fail) ==
    /\ response = Idle
    /\ learnings' = IF fail = "db" THEN learnings ELSE Without(learnings, {id})
    /\ vectorize' = IF fail = "none" THEN {v \in vectorize : v.id # id} ELSE vectorize
    /\ lastLearn' = 0
    /\ response' = [Idle EXCEPT !.op = "deleteLearning", !.fail = fail,
                                !.status = IF fail = "none" THEN "ok" ELSE "error",
                                !.id = id,
                                !.deleted = IF fail = "db" THEN 0
                                            ELSE Cardinality(Ids(learnings) \cap {id})]
    /\ UNCHANGED <<pending, secrets, now, nextId, injects>>

(***************************************************************************)
(* cleanup (src/src/cleanup.ts), called by the scheduled handler.          *)
(***************************************************************************)
\* DELETE FROM learnings WHERE trigger LIKE 'session:%' AND created_at < ?
StaleIds(rows) ==
    {rows[i].id : i \in {j \in 1..Len(rows) :
        /\ StartsWith(rows[j].trigger, "session:")
        /\ rows[j].createdAt < now - StaleDays}}

\* DELETE FROM learnings WHERE confidence <= 0.3
LowConfidenceIds_AtMost(rows) ==
    {rows[i].id : i \in {j \in 1..Len(rows) : rows[j].confidence <= LowConfidence}}

\* DELETE FROM learnings WHERE confidence < 0.3 LIMIT 1
LowConfidenceIds_OnePerRun(rows) ==
    LET low == {rows[i].id : i \in {j \in 1..Len(rows) : rows[j].confidence < LowConfidence}}
    IN {id \in low : \A other \in low : id <= other}

\* DELETE FROM learnings WHERE confidence < 0.3
LowConfidenceIds(rows) ==
    {rows[i].id : i \in {j \in 1..Len(rows) : rows[j].confidence < LowConfidence}}

CleanupFailures == {"none", "staleDb", "staleVec", "lowDb", "lowVec"}

\* A sweep whose passes select the ids, delete them from the Vector Index
\* and then from the Record Store.
cleanup_IndexFirst(fail) ==
    /\ response = Idle
    /\ LET stale == StaleIds(learnings)
           staleVecDone == fail # "staleVec"
           staleDone == fail \notin {"staleVec", "staleDb"}
           afterStale == IF staleDone THEN Without(learnings, stale) ELSE learnings
           low == IF staleDone THEN LowConfidenceIds(afterStale) ELSE {}
           lowVecDone == staleDone /\ fail # "lowVec"
           lowDone == staleDone /\ fail \notin {"lowVec", "lowDb"}
       IN /\ (fail = "staleVec" => stale # {})
          /\ (fail = "lowVec" => low # {})
          /\ learnings' = IF lowDone THEN Without(afterStale, low) ELSE afterStale
          /\ vectorize' = {v \in vectorize :
                              /\ ~(staleVecDone /\ v.id \in stale)
                              /\ ~(lowVecDone /\ v.id \in low)}
          /\ response' = IF fail = "none"
                         THEN [Idle EXCEPT !.op = "cleanup", !.fail = fail,
                                           !.status = "ok",
                                           !.deleted = Cardinality(stale) + Cardinality(low)]
                         ELSE [Idle EXCEPT !.op = "cleanup", !.fail = fail, !.status = "error"]
    /\ lastLearn' = 0
    /\ UNCHANGED <<pending, secrets, now, nextId, injects>>

cleanup(fail) ==
    /\ response = Idle
    /\ LET stale == IF fail = "staleDb" THEN {} ELSE StaleIds(learnings)
           afterStale == Without(learnings, stale)
           pass2 == fail \notin {"staleDb", "staleVec"}
           low == IF pass2 /\ fail # "lowDb" THEN LowConfidenceIds(afterStale) ELSE {}
           staleVec == IF fail = "staleVec" THEN {} ELSE stale
           lowVec == IF fail = "lowVec" THEN {} ELSE low
           staleReason == IF stale # {}
                          THEN <<ToString(Cardinality(stale)) \o " stale session entries">>
                          ELSE <<>>
           lowReason == IF low # {}
                        THEN <<ToString(Cardinality(low)) \o " low confidence entries">>
                        ELSE <<>>
       IN /\ (fail = "staleVec" => stale # {})
          /\ (fail = "lowVec" => low # {})
          /\ learnings' = Without(afterStale, low)
          /\ vectorize' = {v \in vectorize : v.id \notin (staleVec \cup lowVec)}
          /\ response' = IF fail = "none"
                         THEN [Idle EXCEPT !.op = "cleanup", !.fail = fail,
                                           !.status = "ok",
                                           !.deleted = Cardinality(stale) + Cardinality(low),
                                           !.reasons = staleReason \o lowReason]
                         ELSE [Idle EXCEPT !.op = "cleanup", !.fail = fail, !.status = "error"]
    /\ lastLearn' = 0
    /\ UNCHANGED <<pending, secrets, now, nextId, injects>>

(***************************************************************************)
(* Secrets: DejaDO.getSecret, setSecret, deleteSecret.  The table's        *)
(* primary key is name (schema: text('name').primaryKey()).                *)
(***************************************************************************)
SecretNames == {"K"}

SecretValues == {"v1"}

SecretScopes == {"shared", "session:a", "sharedX"}

SecretFailures == {"none", "db"}

SelectSecrets(name, scopes) ==
    Take(SelectSeq(secrets, LAMBDA row : row.name = name /\ Includes(scopes, row.scope)), 1)

getSecret(scopes, name, fail) ==
    /\ response = Idle
    /\ LET filteredScopes == filterScopesByPriority(scopes)
           called == Len(filteredScopes) > 0
           results == IF called /\ fail = "none"
                      THEN SelectSecrets(name, filteredScopes) ELSE <<>>
       IN /\ (~called => fail = "none")
          /\ response' = [Idle EXCEPT !.op = "getSecret", !.fail = fail,
                                      !.status = IF Len(results) > 0 THEN "ok"
                                                 ELSE "not_found",
                                      !.arg = name,
                                      !.scopes = scopes,
                                      !.filtered = filteredScopes,
                                      !.value = IF Len(results) > 0 THEN results[1].value
                                                ELSE ""]
    /\ UNCHANGED <<pending, learnings, secrets, vectorize, now, nextId, injects, lastLearn>>

\* An upsert by DELETE and INSERT: the row of (name, scope) is made anew.
setSecret_Replace(scope, name, value, fail) ==
    /\ response = Idle
    /\ LET others == SelectSeq(secrets, LAMBDA row : ~(row.name = name /\ row.scope = scope))
           conflict == \E i \in 1..Len(others) : others[i].name = name
           ok == fail = "none" /\ ~conflict
       IN /\ secrets' = IF ok
                        THEN Append(others, [name |-> name, value |-> value,
                                             scope |-> scope, createdAt |-> now,
                                             updatedAt |-> now])
                        ELSE secrets
          /\ response' = [Idle EXCEPT !.op = "setSecret", !.fail = fail,
                                      !.status = IF ok THEN "ok" ELSE "error",
                                      !.arg = name,
                                      !.scopes = <<scope>>,
                                      !.value = value]
    /\ UNCHANGED <<pending, learnings, vectorize, now, nextId, injects, lastLearn>>

\* An INSERT OR IGNORE: an existing row keeps its value.
setSecret_KeepFirst(scope, name, value, fail) ==
    /\ response = Idle
    /\ LET conflict == \E i \in 1..Len(secrets) : secrets[i].name = name
           held == \E i \in 1..Len(secrets) :
                      secrets[i].name = name /\ secrets[i].scope = scope
           ok == fail = "none" /\ (held \/ ~conflict)
       IN /\ secrets' = IF fail = "none" /\ ~conflict
                        THEN Append(secrets, [name |-> name, value |-> value,
                                              scope |-> scope, createdAt |-> now,
                                              updatedAt |-> now])
                        ELSE secrets
          /\ response' = [Idle EXCEPT !.op = "setSecret", !.fail = fail,
                                      !.status = IF ok THEN "ok" ELSE "error",
                                      !.arg = name,
                                      !.scopes = <<scope>>,
                                      !.value = value]
    /\ UNCHANGED <<pending, learnings, vectorize, now, nextId, injects, lastLearn>>

setSecret(scope, name, value, fail) ==
    /\ response = Idle
    /\ LET hit(row) == row.name = name /\ row.scope = scope
           rowsAffected == Len(SelectSeq(secrets, hit))
           conflict == \E i \in 1..Len(secrets) : secrets[i].name = name
           ok == fail = "none" /\ (rowsAffected > 0 \/ ~conflict)
       IN /\ secrets' =
                IF fail # "none" THEN secrets
                ELSE IF rowsAffected > 0
                     THEN [i \in 1..Len(secrets) |->
                             IF hit(secrets[i])
                             THEN [secrets[i] EXCEPT !.value = value, !.updatedAt = now]
                             ELSE secrets[i]]
                     ELSE IF conflict THEN secrets
                          ELSE Append(secrets, [name |-> name, value |-> value,
                                                scope |-> scope, createdAt |-> now,
                                                updatedAt |-> now])
          /\ response' = [Idle EXCEPT !.op = "setSecret", !.fail = fail,
                                      !.status = IF ok THEN "ok" ELSE "error",
                                      !.arg = name,
                                      !.scopes = <<scope>>,
                                      !.value = value]
    /\ UNCHANGED <<pending, learnings, vectorize, now, nextId, injects, lastLearn>>

(***************************************************************************)
(* DejaDO.setSecret in two steps, for calls that overlap: the UPDATE, and  *)
(* when it changed no row, after its await, the INSERT.                    *)
(***************************************************************************)
setSecretUpdate(scope, name, value, fail) ==
    /\ response = Idle
    /\ Cardinality(pending) < MaxPending
    /\ LET hit(row) == row.name = name /\ row.scope = scope
           rowsAffected == IF fail = "none" THEN Len(SelectSeq(secrets, hit)) ELSE 0
           call == [Idle EXCEPT !.op = "setSecret",
                                !.arg = name,
                                !.scopes = <<scope>>,
                                !.value = value]
       IN /\ secrets' = [i \in 1..Len(secrets) |->
                           IF fail = "none" /\ hit(secrets[i])
                           THEN [secrets[i] EXCEPT !.value = value, !.updatedAt = now]
                           ELSE secrets[i]]
          /\ response' = IF fail # "none"
                         THEN [call EXCEPT !.fail = fail, !.status = "error"]
                         ELSE IF rowsAffected > 0 THEN [call EXCEPT !.status = "ok"]
                              ELSE response
          /\ pending' = IF fail = "none" /\ rowsAffected = 0
                        THEN pending \cup {call} ELSE pending
    /\ UNCHANGED <<learnings, vectorize, now, nextId, injects, lastLearn>>

\* An INSERT into a table without its primary key.
setSecretInsert_NoKey(call, fail) ==
    /\ response = Idle
    /\ call \in pending
    /\ call.op = "setSecret"
    /\ secrets' = IF fail = "none"
                  THEN Append(secrets, [name |-> call.arg, value |-> call.value,
                                        scope |-> call.scopes[1], createdAt |-> now,
                                        updatedAt |-> now])
                  ELSE secrets
    /\ response' = [call EXCEPT !.fail = fail,
                                !.status = IF fail = "none" THEN "ok" ELSE "error"]
    /\ pending' = pending \ {call}
    /\ UNCHANGED <<learnings, vectorize, now, nextId, injects, lastLearn>>

setSecretInsert(call, fail) ==
    /\ response = Idle
    /\ call \in pending
    /\ call.op = "setSecret"
    /\ LET conflict == \E i \in 1..Len(secrets) : secrets[i].name = call.arg
           ok == fail = "none" /\ ~conflict
       IN /\ secrets' = IF ok
                        THEN Append(secrets, [name |-> call.arg, value |-> call.value,
                                              scope |-> call.scopes[1], createdAt |-> now,
                                              updatedAt |-> now])
                        ELSE secrets
          /\ response' = [call EXCEPT !.fail = fail,
                                      !.status = IF ok THEN "ok" ELSE "error"]
    /\ pending' = pending \ {call}
    /\ UNCHANGED <<learnings, vectorize, now, nextId, injects, lastLearn>>

deleteSecret(scope, name, fail) ==
    /\ response = Idle
    /\ secrets' = IF fail # "none" THEN secrets
                  ELSE SelectSeq(secrets, LAMBDA row : ~(row.name = name /\ row.scope = scope))
    /\ response' = [Idle EXCEPT !.op = "deleteSecret", !.fail = fail,
                                !.status = IF fail = "none" THEN "ok" ELSE "error",
                                !.arg = name,
                                !.scopes = <<scope>>,
                                !.deleted = IF fail # "none" THEN 0
                                            ELSE Len(secrets) - Len(secrets')]
    /\ UNCHANGED <<pending, learnings, vectorize, now, nextId, injects, lastLearn>>

(***************************************************************************)
(* DejaDO.getLearnings.  scope "" is an absent filter.scope and limit 0 an *)
(* absent filter.limit (both are falsy in `if (filter?.scope)`).  Rows of  *)
(* equal createdAt come in any order.                                       *)
(***************************************************************************)
NewestFirst(rows) ==
    LET n == Len(rows)
    IN {[i \in 1..n |-> rows[p[i]]] :
            p \in {q \in [1..n -> 1..n] :
                     /\ \A i, j \in 1..n : q[i] = q[j] => i = j
                     /\ \A i, j \in 1..n :
                           i < j => rows[q[i]].createdAt >= rows[q[j]].createdAt}}

GetLearningsAnswers(scope, limit) ==
    LET rows == SelectSeq(learnings, LAMBDA row : scope = "" \/ row.scope = scope)
    IN {IF limit = 0 THEN sorted ELSE Take(sorted, limit) : sorted \in NewestFirst(rows)}

getLearnings(scope, limit, fail, results) ==
    /\ response = Idle
    /\ results \in (IF fail = "none" THEN GetLearningsAnswers(scope, limit) ELSE {<<>>})
    /\ response' = [Idle EXCEPT !.op = "getLearnings", !.fail = fail,
                                !.status = "ok",
                                !.scopes = <<scope>>,
                                !.limit = limit,
                                !.learnings = results]
    /\ UNCHANGED <<pending, learnings, secrets, vectorize, now, nextId, injects, lastLearn>>

(***************************************************************************)
(* DejaDO.getStats                                                         *)
(***************************************************************************)
CountIn(rows, scope) == Len(SelectSeq(rows, LAMBDA row : row.scope = scope))

ScopesOf(rows) == {rows[i].scope : i \in 1..Len(rows)}

StatsOf(ls, ss) ==
    [totalLearnings |-> Len(ls),
     totalSecrets |-> Len(ss),
     scopes |-> {[scope |-> sc, learnings |-> CountIn(ls, sc), secrets |-> CountIn(ss, sc)] :
                    sc \in ScopesOf(ls) \cup ScopesOf(ss)}]

getStats(fail) ==
    /\ response = Idle
    /\ response' = [Idle EXCEPT !.op = "getStats", !.fail = fail,
                                !.status = "ok",
                                !.stats = IF fail = "none" THEN StatsOf(learnings, secrets)
                                          ELSE StatsOf(<<>>, <<>>)]
    /\ UNCHANGED <<pending, learnings, secrets, vectorize, now, nextId, injects, lastLearn>>

(***************************************************************************)
(* The scope resolver on its own, for any list of scope strings.           *)
(***************************************************************************)
resolve(scopes) ==
    /\ response = Idle
    /\ response' = [Idle EXCEPT !.op = "resolve",
                                !.status = "ok",
                                !.scopes = scopes,
                                !.filtered = filterScopesByPriority(scopes)]
    /\ UNCHANGED <<pending, learnings, secrets, vectorize, now, nextId, injects, lastLearn>>

(***************************************************************************)
(* The caller takes the result; the next operation may start.              *)
(***************************************************************************)
Respond ==
    /\ response # Idle
    /\ response' = Idle
    /\ UNCHANGED <<pending, learnings, secrets, vectorize, now, nextId, injects, lastLearn>>

Tick ==
    /\ response = Idle
    /\ now < MaxTicks * TickDays
    /\ now' = now + TickDays
    /\ UNCHANGED <<pending, learnings, secrets, vectorize, nextId, injects, lastLearn,
                   response>>

Init ==
    /\ learnings = <<>>
    /\ secrets = <<>>
    /\ vectorize = {}
    /\ now = 0
    /\ nextId = 0
    /\ injects = 0
    /\ lastLearn = 0
    /\ response = Idle
    /\ pending = {}

(***************************************************************************)
(* The Vector Index answers only when it is called.                        *)
(***************************************************************************)
AnswersFor(scopes, limit, fail) ==
    IF Len(filterScopesByPriority(scopes)) = 0 \/ fail \in {"embed", "vector"}
    THEN {<<>>}
    ELSE VectorAnswers(TopKFactor * limit)

FailingUpdates(scopes, limit, fail, matches) ==
    IF fail = "update" THEN Ids(InjectLearnings(scopes, limit, matches)) ELSE {0}

(***************************************************************************)
(* Spec: learn, query, inject and deleteLearning, every dependency call    *)
(* of which may fail.                                                      *)
(***************************************************************************)
LearnInputs == {Deploying("shared", <<9>>), Deploying("session:a", <<>>)}

Requests == {<<>>, <<"shared">>, <<"shared", "session:a">>}

LearnFailures == {"none", "embed", "db", "vector"}

Learn == \E in \in LearnInputs, fail \in LearnFailures : learn(in, fail)

Query ==
    \E scopes \in Requests, limit \in Limits, fail \in ReadFailures :
        \E matches \in AnswersFor(scopes, limit, fail) :
            query(scopes, limit, fail, matches)

Inject ==
    \E scopes \in Requests, limit \in Limits, format \in Formats, fail \in InjectFailures :
        \E matches \in AnswersFor(scopes, limit, fail) :
            \E bad \in FailingUpdates(scopes, limit, fail, matches) :
                inject(scopes, limit, format, fail, matches, bad)

DeleteLearning == \E id \in 1..MaxLearns, fail \in DeleteFailures : deleteLearning(id, fail)

Next ==
    \/ Learn
    \/ Query
    \/ Inject
    \/ DeleteLearning
    \/ Respond

Spec == Init /\ [][Next]_vars

(***************************************************************************)
(* SpecValidation: learn with arguments its documentation excludes.         *)
(***************************************************************************)
InvalidInputs ==
    {[scope |-> "shared", trigger |-> "", learning |-> "run dry-run first",
      confidence |-> <<9>>],
     [scope |-> "shared", trigger |-> "deploying", learning |-> "",
      confidence |-> <<9>>],
     [scope |-> "shared", trigger |-> "x", learning |-> "y", confidence |-> <<15>>]}

LearnAny ==
    \E in \in InvalidInputs \cup {Deploying("shared", <<9>>)}, fail \in LearnFailures :
        learn(in, fail)

NextValidation ==
    \/ LearnAny
    \/ DeleteLearning
    \/ Respond

SpecValidation == Init /\ [][NextValidation]_vars

(***************************************************************************)
(* SpecAccess: records and secrets in several scopes, read with several    *)
(* scope lists.                                                            *)
(***************************************************************************)
AccessInputs ==
    {Deploying("shared", <<9>>), Deploying("session:a", <<9>>), Deploying("sharedX", <<9>>)}

AccessRequests == {<<>>, <<"shared">>, <<"sharedX">>, <<"foo", "shared">>,
                   <<"shared", "session:a">>}

AccessLearn == \E in \in AccessInputs : learn(in, "none")

AccessQuery ==
    \E scopes \in AccessRequests, limit \in Limits :
        \E matches \in AnswersFor(scopes, limit, "none") :
            query(scopes, limit, "none", matches)

AccessInject ==
    \E scopes \in AccessRequests, limit \in Limits :
        \E matches \in AnswersFor(scopes, limit, "none") :
            inject(scopes, limit, "learnings", "none", matches, 0)

GetSecret ==
    \E scopes \in AccessRequests, name \in SecretNames, fail \in SecretFailures :
        getSecret(scopes, name, fail)

SetSecret ==
    \E scope \in SecretScopes, name \in SecretNames, value \in SecretValues,
       fail \in SecretFailures :
        setSecret(scope, name, value, fail)

DeleteSecret ==
    \E scope \in SecretScopes, name \in SecretNames, fail \in SecretFailures :
        deleteSecret(scope, name, fail)

NextAccess ==
    \/ AccessLearn
    \/ AccessQuery
    \/ AccessInject
    \/ GetSecret
    \/ SetSecret
    \/ DeleteSecret
    \/ Respond

SpecAccess == Init /\ [][NextAccess]_vars

(***************************************************************************)
(* SpecReliable: learn, query, inject, deleteLearning and the retention    *)
(* sweep, one at a time, no dependency call failing.                       *)
(***************************************************************************)
ReliableInputs ==
    {Deploying("shared", <<9>>), Deploying("shared", <<2>>),
     [scope |-> "session:a", trigger |-> "session:notes", learning |-> "y",
      confidence |-> <<>>]}

ReliableRequests == {<<"shared">>, <<"shared", "session:a">>}

LearnOk == \E in \in ReliableInputs : learn(in, "none")

QueryOk ==
    \E scopes \in ReliableRequests, limit \in Limits :
        \E matches \in AnswersFor(scopes, limit, "none") :
            query(scopes, limit, "none", matches)

InjectOk ==
    \E scopes \in ReliableRequests, limit \in Limits, format \in Formats :
        \E matches \in AnswersFor(scopes, limit, "none") :
            inject(scopes, limit, format, "none", matches, 0)

DeleteLearningOk == \E id \in 1..MaxLearns : deleteLearning(id, "none")

CleanupOk == cleanup("none")

NextReliable ==
    \/ LearnOk
    \/ QueryOk
    \/ InjectOk
    \/ DeleteLearningOk
    \/ CleanupOk
    \/ Tick
    \/ Respond

SpecReliable == Init /\ [][NextReliable]_vars

(***************************************************************************)
(* SpecReinforce: learnings stored at full and at default confidence, and  *)
(* inject hits on them.                                                    *)
(***************************************************************************)
ReinforceInputs ==
    {Deploying("shared", <<10>>),
     [scope |-> "shared", trigger |-> "testing", learning |-> "mock the clock",
      confidence |-> <<>>],
     Deploying("session:a", <<10>>)}

LearnFull == \E in \in ReinforceInputs : learn(in, "none")

InjectHit ==
    \E scopes \in ReliableRequests, limit \in Limits, format \in Formats :
        \E matches \in AnswersFor(scopes, limit, "none") :
            inject(scopes, limit, format, "none", matches, 0)

NextReinforce == LearnFull \/ InjectHit \/ Respond

SpecReinforce == Init /\ [][NextReinforce]_vars

(***************************************************************************)
(* SpecReads: the reading operations, each with and without a failing      *)
(* Record Store, over stores that learn and setSecret have filled.         *)
(***************************************************************************)
FilterScopes == {"", "shared", "session:a"}

ReadLearn == \E in \in LearnInputs : learn(in, "none")

ReadSetSecret ==
    \E scope \in {"shared", "session:a"} : setSecret(scope, "K", "v1", "none")

ReadQuery ==
    \E scopes \in Requests, limit \in Limits, fail \in ReadFailures :
        \E matches \in AnswersFor(scopes, limit, fail) :
            query(scopes, limit, fail, matches)

GetLearnings ==
    \E scope \in FilterScopes, limit \in FilterLimits, fail \in SecretFailures :
        \E results \in (IF fail = "none" THEN GetLearningsAnswers(scope, limit)
                        ELSE {<<>>}) :
            getLearnings(scope, limit, fail, results)

ReadGetSecret ==
    \E scopes \in Requests, fail \in SecretFailures :
        getSecret(scopes, "K", IF Len(filterScopesByPriority(scopes)) = 0
                               THEN "none" ELSE fail)

GetStats == \E fail \in SecretFailures : getStats(fail)

NextReads ==
    \/ ReadLearn
    \/ ReadSetSecret
    \/ ReadQuery
    \/ GetLearnings
    \/ ReadGetSecret
    \/ GetStats
    \/ Respond

SpecReads == Init /\ [][NextReads]_vars

(***************************************************************************)
(* SpecForget: deleteLearning and the sweep among learn and the reads.     *)
(***************************************************************************)
ForgetInputs == {Deploying("shared", <<9>>), Deploying("shared", <<2>>)}

ForgetLearn == \E in \in ForgetInputs : learn(in, "none")

ForgetQuery ==
    \E limit \in Limits :
        \E matches \in AnswersFor(<<"shared">>, limit, "none") :
            query(<<"shared">>, limit, "none", matches)

ForgetInject ==
    \E limit \in Limits :
        \E matches \in AnswersFor(<<"shared">>, limit, "none") :
            inject(<<"shared">>, limit, "learnings", "none", matches, 0)

ListLearnings ==
    \E scope \in {"", "shared"}, limit \in FilterLimits :
        \E results \in GetLearningsAnswers(scope, limit) :
            getLearnings(scope, limit, "none", results)

NextForget ==
    \/ ForgetLearn
    \/ ForgetQuery
    \/ ForgetInject
    \/ ListLearnings
    \/ DeleteLearning
    \/ CleanupOk
    \/ Respond

SpecForget == Init /\ [][NextForget]_vars

(***************************************************************************)
(* SpecOverlap: an inject that is between its SELECT and its updates while *)
(* deleteLearning, the sweep, learn and the reads run.                     *)
(***************************************************************************)
InjectSelect ==
    /\ injects < MaxInjects
    /\ \E limit \in Limits :
           \E matches \in AnswersFor(<<"shared">>, limit, "none") :
               injectSelect(<<"shared">>, limit, "learnings", matches)

InjectUpdate == \E call \in pending : injectUpdate(call)

ListAll ==
    \E results \in GetLearningsAnswers("", 0) : getLearnings("", 0, "none", results)

OverlapQuery ==
    \E matches \in AnswersFor(<<"shared">>, 1, "none") :
        query(<<"shared">>, 1, "none", matches)

NextOverlap ==
    \/ ForgetLearn
    \/ InjectSelect
    \/ InjectUpdate
    \/ OverlapQuery
    \/ ListAll
    \/ DeleteLearningOk
    \/ CleanupOk
    \/ Respond

SpecOverlap == Init /\ [][NextOverlap]_vars

(***************************************************************************)
(* SpecSecrets: setSecret calls that overlap each other and deleteSecret.  *)
(***************************************************************************)
OverlapScopes == {"shared", "session:a"}

OverlapValues == {"v1", "v2"}

SetSecretUpdate ==
    \E scope \in OverlapScopes, value \in OverlapValues, fail \in SecretFailures :
        setSecretUpdate(scope, "K", value, fail)

SetSecretInsert ==
    \E call \in pending, fail \in SecretFailures : setSecretInsert(call, fail)

OverlapDeleteSecret ==
    \E scope \in OverlapScopes, fail \in SecretFailures : deleteSecret(scope, "K", fail)

OverlapGetSecret ==
    \E scopes \in {<<"shared">>, <<"shared", "session:a">>} : getSecret(scopes, "K", "none")

NextSecrets ==
    \/ SetSecretUpdate
    \/ SetSecretInsert
    \/ OverlapDeleteSecret
    \/ OverlapGetSecret
    \/ Respond

SpecSecrets == Init /\ [][NextSecrets]_vars

(***************************************************************************)
(* SpecVault: setSecret, getSecret and deleteSecret one call at a time,    *)
(* over three scopes and two values, while the clock moves.                *)
(***************************************************************************)
VaultScopes == {"shared", "session:a", "session:b"}

VaultRequests ==
    {<<"shared">>, <<"session:a">>, <<"session:b">>,
     <<"session:a", "agent:a", "shared">>, <<"session:a", "session:b">>}

VaultSet ==
    \E scope \in VaultScopes, value \in OverlapValues, fail \in SecretFailures :
        setSecret(scope, "K", value, fail)

VaultGet ==
    \E scopes \in VaultRequests, fail \in SecretFailures : getSecret(scopes, "K", fail)

VaultDelete ==
    \E scope \in VaultScopes, fail \in SecretFailures : deleteSecret(scope, "K", fail)

NextVault == VaultSet \/ VaultGet \/ VaultDelete \/ Tick \/ Respond

SpecVault == Init /\ [][NextVault]_vars

(***************************************************************************)
(* SpecSweep: the retention sweep over learnings whose scope and trigger   *)
(* differ, and whose confidence is below, at and above the threshold.      *)
(***************************************************************************)
SweepInputs ==
    {Deploying("session:a", <<9>>),
     [scope |-> "shared", trigger |-> "session:notes", learning |-> "y",
      confidence |-> <<9>>],
     Deploying("shared", <<2>>),
     Deploying("shared", <<3>>)}

SweepLearn == \E in \in SweepInputs : learn(in, "none")

NextSweep == SweepLearn \/ CleanupOk \/ Tick \/ Respond

SpecSweep == Init /\ [][NextSweep]_vars

(***************************************************************************)
(* SpecSweepFail: the retention sweep when a delete of either store may    *)
(* raise in either pass.                                                   *)
(***************************************************************************)
Cleanup == \E fail \in CleanupFailures : cleanup(fail)

NextSweepFail == SweepLearn \/ Cleanup \/ Tick \/ Respond

SpecSweepFail == Init /\ [][NextSweepFail]_vars

(***************************************************************************)
(* SpecHits: inject calls on the same learnings that overlap each other:   *)
(* each is between its SELECT and its updates while the others run.  Two   *)
(* calls in flight differ in limit, format or matches.                     *)
(***************************************************************************)
HitInputs == {Deploying("shared", <<>>)}

HitLearn == \E in \in HitInputs : learn(in, "none")

HitSelect ==
    /\ injects < MaxOverlap
    /\ \E limit \in Limits, format \in Formats :
           \E matches \in AnswersFor(<<"shared">>, limit, "none") :
               /\ injectSelect(<<"shared">>, limit, format, matches)
               /\ pending' # pending

NextHits == HitLearn \/ HitSelect \/ InjectUpdate \/ Respond

SpecHits == Init /\ [][NextHits]_vars

(***************************************************************************)
(* SpecRace: a learn that is between its Record Store write and its Vector *)
(* Index write while deleteLearning, the sweep and other learns run; no    *)
(* dependency call fails.                                                  *)
(***************************************************************************)
LearnInsert == \E in \in ForgetInputs : learnInsert(in)

LearnIndex == \E call \in pending : learnIndex(call)

NextRace == LearnInsert \/ LearnIndex \/ DeleteLearningOk \/ CleanupOk \/ Respond

SpecRace == Init /\ [][NextRace]_vars

(***************************************************************************)
(* SpecFrame: every operation that writes the learnings table, with the    *)
(* clock moving between them.                                              *)
(***************************************************************************)
NextFrame ==
    \/ ForgetLearn
    \/ ForgetQuery
    \/ ForgetInject
    \/ DeleteLearningOk
    \/ CleanupOk
    \/ Tick
    \/ Respond

SpecFrame == Init /\ [][NextFrame]_vars

(***************************************************************************)
(* SpecEmpty: reads whose scope list resolves to nothing, next to reads    *)
(* that resolve to shared, over stores that hold learnings and a secret.   *)
(***************************************************************************)
EmptyRequests == {<<>>, <<"foo">>, <<"shared">>}

EmptyLearn == \E in \in LearnInputs : learn(in, "none")

EmptySetSecret == setSecret("shared", "K", "v1", "none")

EmptyQuery ==
    \E scopes \in EmptyRequests, limit \in Limits :
        \E matches \in AnswersFor(scopes, limit, "none") :
            query(scopes, limit, "none", matches)

EmptyInject ==
    \E scopes \in EmptyRequests, limit \in Limits, format \in Formats :
        \E matches \in AnswersFor(scopes, limit, "none") :
            inject(scopes, limit, format, "none", matches, 0)

EmptyGetSecret == \E scopes \in EmptyRequests : getSecret(scopes, "K", "none")

NextEmpty ==
    \/ EmptyLearn
    \/ EmptySetSecret
    \/ EmptyQuery
    \/ EmptyInject
    \/ EmptyGetSecret
    \/ Respond

SpecEmpty == Init /\ [][NextEmpty]_vars

(***************************************************************************)
(* SpecResolve: the scope resolver on every scope list.                    *)
(***************************************************************************)
Resolve == \E scopes \in ScopeLists : resolve(scopes)

NextResolve == Resolve \/ Respond

SpecResolve == Init /\ [][NextResolve]_vars

(***************************************************************************)
(*                              The claims                                 *)
(***************************************************************************)
EntriesWith(scopes, prefix) == SelectSeq(scopes, LAMBDA s : StartsWith(s, prefix))

IsSession(s) == StartsWith(s, "session:")

IsAgent(s) == StartsWith(s, "agent:")

BucketOf(s) == IF IsSession(s) THEN 1 ELSE IF IsAgent(s) THEN 2 ELSE 3

\* C1: the resolver returns exactly the entries of the highest-priority
\* non-empty bucket, in input order: all session: entries if there is one,
\* otherwise all agent: entries if there is one; entries of two buckets are
\* never returned together.
ResolverReturnsFirstBucket ==
    response.op = "resolve" =>
        LET in == response.scopes
            out == response.filtered
        IN /\ EntriesWith(in, "session:") # <<>> => out = EntriesWith(in, "session:")
           /\ (EntriesWith(in, "session:") = <<>> /\ EntriesWith(in, "agent:") # <<>>)
                 => out = EntriesWith(in, "agent:")
           /\ \A i, j \in 1..Len(out) : BucketOf(out[i]) = BucketOf(out[j])

\* C1 witness: [agent:a, agent:b, shared] resolved to [agent:a, agent:b].
ResolverTwoAgents ==
    /\ response.op = "resolve"
    /\ response.scopes = <<"agent:a", "agent:b", "shared">>
    /\ response.filtered = <<"agent:a", "agent:b">>

\* C2: with no session: entry and no agent: entry among the requested scopes,
\* the resolver returns [shared] if shared was requested and the empty list
\* otherwise.
ResolverFallsBackToShared ==
    (/\ response.op = "resolve"
     /\ EntriesWith(response.scopes, "session:") = <<>>
     /\ EntriesWith(response.scopes, "agent:") = <<>>)
        => response.filtered = IF Includes(response.scopes, "shared")
                               THEN <<"shared">> ELSE <<>>

KnownScope(s) == IsSession(s) \/ IsAgent(s) \/ s = "shared"

\* The stored secret a getSecret result was read from satisfies P.
SecretReadFrom(P(_)) ==
    \E j \in 1..Len(secrets) :
        /\ secrets[j].name = response.arg
        /\ secrets[j].value = response.value
        /\ P(secrets[j].scope)

\* C3: a requested scope that is neither session:..., agent:... nor exactly
\* shared is ignored on reads: it is not in the resolver's output, and no
\* record stored under such a scope is returned by query, inject or getSecret.
UnknownScopesIgnored ==
    response.op \in {"query", "inject", "getSecret"} =>
        /\ \A k \in 1..Len(response.filtered) : KnownScope(response.filtered[k])
        /\ \A i \in 1..Len(response.learnings) : KnownScope(response.learnings[i].scope)
        /\ (response.op = "getSecret" /\ response.status = "ok")
              => SecretReadFrom(KnownScope)

\* No requested scope has a higher priority than scope s.
HighestRequested(s) ==
    \A k \in 1..Len(response.scopes) : BucketOf(response.scopes[k]) >= BucketOf(s)

Resolved(s) == Includes(response.filtered, s) /\ HighestRequested(s)

\* C4: every learning returned by query or inject, and every value returned
\* by getSecret, comes from a stored record whose scope is in the resolver's
\* output for the request, which holds requested scopes only; a record of a
\* lower-priority requested scope is never returned.
ReadsStayInResolvedScopes ==
    /\ response.op \in {"query", "inject", "getSecret"} =>
          \A k \in 1..Len(response.filtered) :
              Includes(response.scopes, response.filtered[k])
    /\ response.op \in {"query", "inject"} =>
          \A i \in 1..Len(response.learnings) :
              \E j \in 1..Len(learnings) :
                  /\ learnings[j].id = response.learnings[i].id
                  /\ learnings[j].scope = response.learnings[i].scope
                  /\ Resolved(learnings[j].scope)
    /\ (response.op = "getSecret" /\ response.status = "ok") => SecretReadFrom(Resolved)

\* C4 witness: shared and session:a are requested, the Vector Index matches
\* a shared learning, and only session:a learnings come back.
SharedHiddenBehindSession ==
    /\ response.op = "query"
    /\ response.scopes = <<"shared", "session:a">>
    /\ Len(response.learnings) > 0
    /\ \E j \in 1..Len(learnings) :
          /\ learnings[j].scope = "shared"
          /\ learnings[j].id \in MatchIds(response.matches)

\* C5: when no dependency call fails and operations run one at a time, after
\* any sequence of learn, query, inject, deleteLearning and retention sweeps
\* the Record Store and the Vector Index hold the same set of learning ids.
StoresHoldSameIds == Ids(learnings) = VectorIds

\* C5 witness: a sweep has deleted learnings from both stores and others
\* remain in both.
SweepDeletedSome ==
    /\ response.op = "cleanup"
    /\ response.deleted > 0
    /\ learnings # <<>>
    /\ Cardinality(VectorIds) = nextId - response.deleted

\* C6: after a successful learn the returned id is in the Record Store and
\* in the Vector Index under the learning's scope, and a query of that scope
\* that follows at once, with limit >= 1 and the new id ranked best by the
\* Vector Index, returns the new learning.
LearnThenQueryFindsIt ==
    /\ (response.op = "learn" /\ response.status = "ok") =>
          /\ \E j \in 1..Len(learnings) :
                /\ learnings[j].id = response.id
                /\ learnings[j].scope = response.arg.scope
          /\ [id |-> response.id, scope |-> response.arg.scope] \in vectorize
    /\ (/\ response.op = "query"
        /\ response.fail = "none"
        /\ lastLearn # 0
        /\ response.limit >= 1
        /\ response.matches # <<>>
        /\ response.matches[1].id = lastLearn
        /\ \E j \in 1..Len(learnings) :
              /\ learnings[j].id = lastLearn
              /\ response.scopes = <<learnings[j].scope>>)
          => lastLearn \in Ids(response.learnings)

\* C7: a learn whose Vector Index write fails after the Record Store write
\* reports a failure; a learn that reports success has written both stores.
LearnSurfacesVectorFailure ==
    response.op = "learn" =>
        /\ response.fail = "vector" => response.status = "error"
        /\ response.status = "ok" =>
              /\ response.id \in Ids(learnings)
              /\ response.id \in VectorIds

\* C7 witness: the record was written, the Vector Index write failed and the
\* caller got the failure.
LearnFailedAfterRecordWrite ==
    /\ response.op = "learn"
    /\ response.fail = "vector"
    /\ response.status = "error"
    /\ nextId \in Ids(learnings)
    /\ nextId \notin VectorIds

InvalidLearn(in) ==
    \/ in.trigger = ""
    \/ in.learning = ""
    \/ in.confidence # <<>> /\ (in.confidence[1] < 0 \/ in.confidence[1] > 10)

\* C8: learn with an empty trigger, an empty learning or a confidence outside
\* [0,1] returns a validation error, computes no embedding and writes to
\* neither store.
LearnRejectsInvalidArguments ==
    (response.op = "learn" /\ InvalidLearn(response.arg)) =>
        /\ response.status = "validation"
        /\ ~response.embedded
        /\ nextId \notin Ids(learnings)
        /\ nextId \notin VectorIds

\* The score the Vector Index gave id s in the answer to this query.
HasScore(id, s) ==
    \E k \in 1..Len(response.matches) :
        response.matches[k].id = id /\ response.matches[k].score = s

\* C9: the learnings query returns are in non-increasing order of the score
\* the Vector Index returned for them.
QuerySortedByScore ==
    response.op = "query" =>
        \A i, j \in 1..Len(response.learnings) :
            i < j =>
                \A a, b \in 0..10 :
                    (/\ HasScore(response.learnings[i].id, a)
                     /\ HasScore(response.learnings[j].id, b)) => a >= b

\* C9 witness: two learnings returned, the later-stored one first.
QueryReordered ==
    /\ response.op = "query"
    /\ Len(response.learnings) = 2
    /\ response.learnings[1].id > response.learnings[2].id

IdsInOrder(rows) == [i \in 1..Len(rows) |-> rows[i].id]

\* C10: for the same store, scope list, limit and Vector Index answer,
\* inject returns the learnings query returns, in the same order.
InjectReturnsWhatQueryReturns ==
    (response.op = "inject" /\ response.fail = "none") =>
        IdsInOrder(response.learnings)
            = IdsInOrder(QueryLearnings(response.scopes, response.limit, response.matches))

\* C11: an inject during which no call fails raises the stored confidence of
\* each learning it returns by the fixed increment, once, and leaves every
\* other stored learning as it was.
InjectReinforcesWhatItReturns ==
    [][(response = Idle /\ response'.op = "inject" /\ response'.fail = "none") =>
          /\ Len(learnings') = Len(learnings)
          /\ \A i \in 1..Len(learnings) :
                learnings'[i] =
                    [learnings[i] EXCEPT !.confidence =
                        IF learnings[i].id \in Ids(response'.learnings)
                        THEN @ + HitIncrement ELSE @]]_vars

\* C11 witness: of two stored learnings inject returned one; that one is
\* stored one increment above the confidence inject read, the other is not.
InjectRaisedOneOfTwo ==
    /\ response.op = "inject"
    /\ response.fail = "none"
    /\ Len(response.learnings) = 1
    /\ Len(learnings) = 2
    /\ \E i, j \in 1..2 :
          /\ learnings[i].id = response.learnings[1].id
          /\ learnings[i].confidence = response.learnings[1].confidence + HitIncrement
          /\ learnings[j].id # response.learnings[1].id
          /\ learnings[j].confidence \in {DefaultConfidence, 9}

\* C12: every stored learning has a confidence within [0,1], however many
\* inject hits it has had.
ConfidenceWithinUnitInterval ==
    \A i \in 1..Len(learnings) : learnings[i].confidence \in 0..10

\* C13: an inject whose confidence update fails still returns the learnings
\* it retrieved, and the prompt built from them.
InjectSurvivesFailedReinforcement ==
    (response.op = "inject" /\ response.fail = "update") =>
        LET found == InjectLearnings(response.scopes, response.limit, response.matches)
        IN /\ response.status = "ok"
           /\ IdsInOrder(response.learnings) = IdsInOrder(found)
           /\ response.arg = "prompt" => response.prompt = PromptOf(found)

PromptLine(row) == "When " \o row.trigger \o ", " \o row.learning

RECURSIVE PromptLines(_)
PromptLines(rows) ==
    IF rows = <<>> THEN ""
    ELSE IF Len(rows) = 1 THEN PromptLine(rows[1])
         ELSE PromptLines(SubSeq(rows, 1, Len(rows) - 1)) \o "\n"
                  \o PromptLine(rows[Len(rows)])

\* C14: with format prompt, the prompt inject returns is one line
\* `When <trigger>, <learning>` per returned learning, in the order of the
\* returned learnings, joined by newlines; the empty string when no learning
\* is returned.
PromptIsOneLinePerLearning ==
    (response.op = "inject" /\ response.arg = "prompt") =>
        /\ response.prompt = PromptLines(response.learnings)
        /\ response.learnings = <<>> => response.prompt = ""

\* C14 witness: a prompt of two different lines.
PromptOfTwoLearnings ==
    /\ response.op = "inject"
    /\ response.arg = "prompt"
    /\ Len(response.learnings) = 2
    /\ response.prompt = PromptLine(response.learnings[1]) \o "\n"
                             \o PromptLine(response.learnings[2])
    /\ response.learnings[1].trigger # response.learnings[2].trigger

ReadOperations == {"query", "getLearnings", "getSecret", "getStats"}

\* C15: query, getLearnings, getSecret and getStats leave every learning
\* (its confidence included), every secret and the Vector Index unchanged,
\* for every argument and whether or not a call they make fails.
ReadsChangeNothing ==
    [][(response = Idle /\ response'.op \in ReadOperations) =>
          /\ learnings' = learnings
          /\ secrets' = secrets
          /\ vectorize' = vectorize]_vars

\* C15 witness: a query has returned a learning, and it is stored with the
\* confidence it was learned with; a secret is stored too.
QueryReturnedUntouched ==
    /\ response.op = "query"
    /\ Len(response.learnings) > 0
    /\ secrets # <<>>
    /\ \E i \in 1..Len(learnings) :
          /\ learnings[i].id = response.learnings[1].id
          /\ learnings[i].confidence = response.learnings[1].confidence

Forgot(id) ==
    /\ response.op = "deleteLearning"
    /\ response.id = id
    /\ response.status = "ok"
    /\ response.deleted = 1

Gone(id) ==
    /\ id \notin Ids(learnings)
    /\ id \notin VectorIds
    /\ response.op \in {"query", "inject", "getLearnings"} =>
          id \notin Ids(response.learnings)

\* C16: once deleteLearning of an existing id has succeeded, the id is absent
\* from the Record Store and from the Vector Index, and no later query,
\* inject or getLearnings returns it, whatever its scope list or filter.
ForgottenStaysGone ==
    \A id \in 1..MaxLearns : [](Forgot(id) => []Gone(id))

\* C16 witness: a learning is forgotten while another is still stored and
\* returned by a read.
ForgotOneOfTwo ==
    /\ response.op = "getLearnings"
    /\ nextId = 2
    /\ Ids(learnings) = {2}
    /\ VectorIds = {2}
    /\ Ids(response.learnings) = {2}

\* C17: deleteLearning of an id that has no record reports not-found, and
\* changes neither store.
ForgetOfUnknownIdIsNotFound ==
    (/\ response.op = "deleteLearning"
     /\ response.fail = "none"
     /\ response.deleted = 0) => response.status = "not_found"

\* Every id generated so far in SpecOverlap was stored (learn does not fail
\* there), so one that is not in the table has been deleted.
Deleted(id) == id <= nextId /\ id \notin Ids(learnings)

Unread(id) ==
    /\ \A call \in pending : id \notin Ids(call.learnings)
    /\ response.op \in {"query", "inject", "getLearnings"} =>
          id \notin Ids(response.learnings)

FailureIsNotAnEmptyResult ==
    (/\ response.op \in {"query", "inject"}
     /\ response.fail \in {"embed", "vector", "db"}) =>
        ~(/\ response.status = "ok"
          /\ response.learnings = <<>>
          /\ response.prompt = "")

\* C20: under any sequence or overlap of setSecret and deleteSecret calls the
\* secrets table holds at most one row for each (name, scope) pair.
OneSecretPerNameAndScope ==
    \A i, j \in 1..Len(secrets) :
        (secrets[i].name = secrets[j].name /\ secrets[i].scope = secrets[j].scope)
            => i = j

\* C20 witness: of two overlapping setSecret calls for one (name, scope)
\* pair the second INSERT was refused; the pair has its one row.
SecondInsertRefused ==
    /\ response.op = "setSecret"
    /\ response.fail = "none"
    /\ response.status = "error"
    /\ Len(secrets) = 1
    /\ secrets[1].name = response.arg
    /\ secrets[1].scope = response.scopes[1]
    /\ secrets[1].value # response.value

SecretsOf(rows, name, scope) ==
    SelectSeq(rows, LAMBDA row : row.name = name /\ row.scope = scope)

\* C21: a successful setSecret leaves exactly one row for its (name, scope),
\* holding its value; when the row existed before the call (as in a second
\* call with the same arguments) its createdAt is the one it had.
SetSecretKeepsCreatedAt ==
    [][(response = Idle /\ response'.op = "setSecret" /\ response'.status = "ok") =>
          LET before == SecretsOf(secrets, response'.arg, response'.scopes[1])
              after == SecretsOf(secrets', response'.arg, response'.scopes[1])
          IN /\ Len(after) = 1
             /\ after[1].value = response'.value
             /\ Len(before) > 0 => after[1].createdAt = before[1].createdAt]_vars

\* C21 witness: a secret written again on a later day: created then, updated
\* now.
SecretUpdatedLater ==
    /\ response.op = "setSecret"
    /\ response.status = "ok"
    /\ \E i \in 1..Len(secrets) :
          /\ secrets[i].scope = response.scopes[1]
          /\ secrets[i].value = response.value
          /\ secrets[i].createdAt < secrets[i].updatedAt
          /\ secrets[i].updatedAt = now

ValuesOf(rows) == [i \in 1..Len(rows) |-> rows[i].value]

HasSecret(scope) == SecretsOf(secrets, "K", scope) # <<>>

\* C23: secrets are keyed by (name, scope): a setSecret during which no call
\* fails succeeds and leaves a row for its pair, also when the name is held
\* in another scope.
SetSecretSucceedsInEveryScope ==
    (response.op = "setSecret" /\ response.fail = "none") =>
        /\ response.status = "ok"
        /\ HasSecret(response.scopes[1])

\* C24: once K has been set in session:a and in shared, in either order,
\* both rows exist and getSecret([session:a, agent:a, shared], K) finds the
\* session:a value.
SessionSecretWinsOverShared ==
    (/\ response.op = "setSecret"
     /\ response.fail = "none"
     /\ \/ response.scopes = <<"session:a">> /\ HasSecret("shared")
        \/ response.scopes = <<"shared">> /\ HasSecret("session:a")) =>
        /\ HasSecret("session:a")
        /\ HasSecret("shared")
        /\ ValuesOf(SelectSecrets("K",
               filterScopesByPriority(<<"session:a", "agent:a", "shared">>)))
             = ValuesOf(SecretsOf(secrets, "K", "session:a"))

\* C25: once K has been set in session:a and in session:b, in either order,
\* getSecret finds the value of whichever of the two is listed first.
FirstListedScopeWins ==
    (/\ response.op = "setSecret"
     /\ response.fail = "none"
     /\ \/ response.scopes = <<"session:a">> /\ HasSecret("session:b")
        \/ response.scopes = <<"session:b">> /\ HasSecret("session:a")) =>
        /\ ValuesOf(SelectSecrets("K", filterScopesByPriority(<<"session:a", "session:b">>)))
             = ValuesOf(SecretsOf(secrets, "K", "session:a"))
        /\ ValuesOf(SelectSecrets("K", filterScopesByPriority(<<"session:b", "session:a">>)))
             = ValuesOf(SecretsOf(secrets, "K", "session:b"))
        /\ HasSecret("session:a")
        /\ HasSecret("session:b")

\* C26: deleteSecret removes the row of (name, scope) when there is one, and
\* reports not-found when there is none.
DeleteSecretReportsNotFound ==
    (response.op = "deleteSecret" /\ response.fail = "none") =>
        /\ ~HasSecret(response.scopes[1])
        /\ response.deleted = 0 => response.status = "not_found"

Swept == response.op = "cleanup" /\ response.status = "ok"

OlderThanAWeek(row) == now - row.createdAt > StaleDays

\* C27: after a sweep no learning is left whose scope starts with session:
\* and whose age exceeds 7 days.
SweepDeletesOldSessionLearnings ==
    Swept =>
        \A i \in 1..Len(learnings) :
            ~(IsSession(learnings[i].scope) /\ OlderThanAWeek(learnings[i]))

\* What the first pass of the sweep takes: DELETE ... WHERE trigger LIKE
\* 'session:%' AND created_at < weekAgo.
TakenByFirstPass(row) == StartsWith(row.trigger, "session:") /\ OlderThanAWeek(row)

\* C28: a sweep that completes removes every learning whose confidence is
\* below 0.3 from the Record Store and from the Vector Index, whatever its
\* age or scope, and its low-confidence pass removes no learning whose
\* confidence is 0.3 or more.
SweepRemovesLowConfidence ==
    [][(response = Idle /\ response'.op = "cleanup" /\ response'.status = "ok") =>
          \A i \in 1..Len(learnings) :
              LET row == learnings[i]
              IN /\ row.confidence < LowConfidence =>
                       /\ row.id \notin Ids(learnings')
                       /\ row.id \notin {v.id : v \in vectorize'}
                 /\ (row.confidence >= LowConfidence /\ ~TakenByFirstPass(row)) =>
                       /\ \E j \in 1..Len(learnings') : learnings'[j] = row
                       /\ row.id \in {v.id : v \in vectorize'}]_vars

\* C28 witness: the sweep removed a learning of low confidence and kept one
\* whose confidence is exactly 0.3.
SweepKeptThreshold ==
    /\ Swept
    /\ response.reasons = <<"1 low confidence entries">>
    /\ Len(learnings) = 1
    /\ learnings[1].confidence = LowConfidence
    /\ VectorIds = {learnings[1].id}

Clean ==
    \A i \in 1..Len(learnings) :
        /\ learnings[i].confidence >= LowConfidence
        /\ ~TakenByFirstPass(learnings[i])

\* C29: the sweep is idempotent: a completed sweep leaves nothing a sweep
\* would take, and a sweep of such a store deletes nothing from either
\* store and reports a count of zero and no reasons.
SweepIsIdempotent ==
    /\ [](Swept => Clean)
    /\ [][(response = Idle /\ Clean /\ response'.op = "cleanup"
              /\ response'.status = "ok") =>
             /\ learnings' = learnings
             /\ vectorize' = vectorize
             /\ response'.deleted = 0
             /\ response'.reasons = <<>>]_vars

\* C29 witness: a sweep that found nothing to delete in a store an earlier
\* sweep had deleted from.
SecondSweepDeletedNothing ==
    /\ Swept
    /\ response.deleted = 0
    /\ response.reasons = <<>>
    /\ learnings # <<>>
    /\ nextId > Len(learnings)

\* C30: when the resolver's output is empty, query and inject return no
\* learnings and the empty prompt, without calling the Embedding Provider or
\* the Vector Index, without changing a stored learning and without an
\* error; getSecret returns not-found.
EmptyResolutionIsEmptyResult ==
    [][(response = Idle /\ response'.filtered = <<>>) =>
          /\ response'.op \in {"query", "inject"} =>
                /\ response'.status = "ok"
                /\ response'.learnings = <<>>
                /\ response'.prompt = ""
                /\ ~response'.embedded
                /\ ~response'.searched
                /\ learnings' = learnings
          /\ response'.op = "getSecret" =>
                /\ response'.status = "not_found"
                /\ response'.value = ""]_vars

\* C30 witness: a query for a scope of no known form came back empty
\* although shared holds a learning and a secret.
NothingForUnknownScope ==
    /\ response.op = "query"
    /\ response.scopes = <<"foo">>
    /\ response.filtered = <<>>
    /\ response.learnings = <<>>
    /\ \E i \in 1..Len(learnings) : learnings[i].scope = "shared"
    /\ secrets # <<>>

(***************************************************************************)
(* Dangling Vector Index entries, the order of forget's deletions, and     *)
(* truncation.                                                             *)
(***************************************************************************)
\* The record a returned learning was read from: the same row, its
\* confidence apart (inject raises it after the read).
ReadFromRecord(l) ==
    \E j \in 1..Len(learnings) :
        [learnings[j] EXCEPT !.confidence = 0] = [l EXCEPT !.confidence = 0]

\* The matches of the response that have no record in the Record Store.
DanglingMatches == MatchIds(response.matches) \ Ids(learnings)

\* C31: a Vector Index match whose id has no record in the Record Store is
\* never returned by query or inject and causes no error: every learning
\* returned is a record of the Record Store.
DanglingMatchesNotReturned ==
    response.op \in {"query", "inject"} =>
        /\ response.status = "ok"
        /\ \A k \in 1..Len(response.learnings) : ReadFromRecord(response.learnings[k])
        /\ Ids(response.learnings) \cap DanglingMatches = {}

\* A query matched a dangling entry and a recorded learning, and returned
\* the recorded one alone.
QuerySkippedDanglingMatch ==
    /\ response.op = "query"
    /\ response.fail = "none"
    /\ DanglingMatches # {}
    /\ Len(response.learnings) = 1
    /\ response.learnings[1].id \in Ids(learnings)

\* C32: forget attempts both deletions whatever the outcome of the first:
\* when the Record Store delete fails, the Vector Index delete of the same
\* id is still made.
ForgetDeletesVectorAfterFailedRecordDelete ==
    (response.op = "deleteLearning" /\ response.fail = "db") =>
        response.id \notin VectorIds

\* C35: query and inject return at most limit learnings, and no in-scope
\* matched learning of the Record Store that was left out has a strictly
\* higher score than one that was returned.
HighestRankedAreReturned ==
    (response.op \in {"query", "inject"} /\ response.fail = "none") =>
        /\ Len(response.learnings) <= response.limit
        /\ \A j \in 1..Len(learnings), k \in 1..Len(response.learnings) :
               (/\ Includes(response.filtered, learnings[j].scope)
                /\ learnings[j].id \in MatchIds(response.matches)
                /\ learnings[j].id \notin Ids(response.learnings)) =>
                   ScoreOf(response.matches, learnings[j].id)
                       <= ScoreOf(response.matches, response.learnings[k].id)

\* C38: when the embedding or the Record Store insert fails, learn raises
\* the failure and neither store holds the new id; no learn, failed or not,
\* leaves its id in the Vector Index without a record.
FailedLearnLeavesNoEntry ==
    response.op = "learn" =>
        /\ response.fail \in {"embed", "db"} =>
               /\ response.status = "error"
               /\ nextId \notin Ids(learnings)
               /\ nextId \notin VectorIds
        /\ nextId \in VectorIds => nextId \in Ids(learnings)

\* The second learn failed at the Record Store insert: both stores hold the
\* first learning only.
SecondLearnFailedAtInsert ==
    /\ response.op = "learn"
    /\ response.fail = "db"
    /\ response.status = "error"
    /\ nextId = 2
    /\ Ids(learnings) = {1}
    /\ VectorIds = {1}


LowConfidencePassRunsAfterFailedStalePass ==
    (response.op = "cleanup" /\ response.fail \in {"staleDb", "staleVec"}) =>
        /\ LowConfidenceIds(learnings) = {}
        /\ \A i \in 1..Len(learnings) : learnings[i].confidence >= LowConfidence


(***************************************************************************)
(* Overlapping calls.                                                      *)
(***************************************************************************)
\* C36: when inject calls that return the same learning overlap, no
\* reinforcement is lost: the updates of each completing call raise the
\* stored confidence of every learning it returned by one increment,
\* whatever the other calls did since it read them, and no other step
\* changes a confidence; n completed calls leave the initial value plus n
\* increments.
NoReinforcementLost ==
    [][/\ Len(learnings') >= Len(learnings)
       /\ \A i \in 1..Len(learnings) :
              learnings'[i] =
                  IF /\ response = Idle
                     /\ response'.op = "inject"
                     /\ learnings[i].id \in Ids(response'.learnings)
                  THEN [learnings[i] EXCEPT !.confidence = @ + HitIncrement]
                  ELSE learnings[i]]_vars

\* C37: under any interleaving of the steps of learn, forget and the sweep,
\* once every call in flight has completed without a dependency failure the
\* Record Store and the Vector Index hold the same ids.
StoresAgreeOnceCallsComplete ==
    pending = {} => Ids(learnings) = VectorIds

\* Two injects have completed. The second read the learning at its initial
\* confidence, the first updated it in between, and the stored confidence
\* counts both.
OverlappingInjectsBothCounted ==
    /\ response.op = "inject"
    /\ pending = {}
    /\ injects = 2
    /\ Len(response.learnings) = 1
    /\ response.learnings[1].confidence = DefaultConfidence
    /\ \E i \in 1..Len(learnings) :
           /\ learnings[i].id = response.learnings[1].id
           /\ learnings[i].confidence = DefaultConfidence + 2 * HitIncrement


(***************************************************************************)
(* The fields of a stored learning.                                        *)
(***************************************************************************)
\* C39: once a learning is created no operation changes its id, scope,
\* trigger, learning text or createdAt; its confidence is the only field
\* that changes, it changes through inject alone, and it never decreases.
OnlyInjectRaisesConfidence ==
    [][\A i \in 1..Len(learnings), j \in 1..Len(learnings') :
          learnings'[j].id = learnings[i].id =>
              /\ [learnings'[j] EXCEPT !.confidence = 0]
                     = [learnings[i] EXCEPT !.confidence = 0]
              /\ learnings'[j].confidence >= learnings[i].confidence
              /\ learnings'[j].confidence # learnings[i].confidence =>
                     (response = Idle /\ response'.op = "inject")]_vars

\* A week after it was created a learning was returned by inject: it is
\* stored one increment higher and is otherwise as it was created.
InjectRaisedOnlyConfidence ==
    /\ response.op = "inject"
    /\ now = TickDays
    /\ Len(response.learnings) = 1
    /\ response.learnings[1].confidence = 9
    /\ \E i \in 1..Len(learnings) :
           learnings[i] = [id |-> response.learnings[1].id, trigger |-> "deploying",
                           learning |-> "run dry-run first", confidence |-> 9 + HitIncrement,
                           scope |-> "shared", createdAt |-> 0]


====
